---- MODULE Spec2Model ----
(***************************************************************************)
(* A model of sandbox/expression.py: the identifier index (ParseIDs), the  *)
(* matrix batch stream (StreamMatrixData), the loader (ExprDB.LoadMTX),    *)
(* the cluster loader (ExprDB.LoadClusters) and the statement executed by  *)
(* ExprDB.InsertData.                                                      *)
(*                                                                         *)
(* Text is a sequence of atoms.  An atom is one character (" ", "\t", "%", *)
(* "'", "(", ")", ",", a letter) or one numeric token that contains none   *)
(* of those characters ("1", "0.5", ...).  A file is a sequence of lines,  *)
(* a line is a sequence of atoms (without its line terminator).            *)
(***************************************************************************)
EXTENDS Integers, Sequences, FiniteSets, TLC

\* ------------------------------------------------------------------ bounds
MaxLines        == 4     \* lines of a matrix file read through the stream alone
MaxBatchSize    == 3     \* batch sizes 1..MaxBatchSize are tried
MaxLoadLines    == 3     \* lines of a matrix file loaded by LoadMTX
MaxClusterLines == 3     \* lines of a cluster file
MaxCallLines    == 2     \* lines of a matrix file when other methods are called too

\* The default batch size of StreamMatrixData, the one LoadMTX runs with.
DefaultBatchSize == 1024

\* ------------------------------------------------------------- str methods
\* str.strip() removes leading and trailing whitespace.
IsSpace(a) == a \in {" ", "\t"}

RECURSIVE LStrip(_)
LStrip(s) == IF s # <<>> /\ IsSpace(Head(s)) THEN LStrip(Tail(s)) ELSE s

RECURSIVE RStrip(_)
RStrip(s) ==
    IF s # <<>> /\ IsSpace(s[Len(s)]) THEN RStrip(SubSeq(s, 1, Len(s) - 1)) ELSE s

strip(s) == RStrip(LStrip(s))

\* str.split(sep): the fields between every occurrence of sep; one field at
\* least, and an empty field between two adjacent separators.
RECURSIVE SplitFrom(_, _, _, _)
SplitFrom(s, sep, cur, out) ==
    IF s = <<>> THEN Append(out, cur)
    ELSE IF Head(s) = sep THEN SplitFrom(Tail(s), sep, <<>>, Append(out, cur))
    ELSE SplitFrom(Tail(s), sep, Append(cur, Head(s)), out)

split(s, sep) == SplitFrom(s, sep, <<>>, <<>>)

startswith(s, a) == s # <<>> /\ Head(s) = a

\* int(x): whitespace around the digits is accepted; a decimal point, a word
\* or the empty string is not (ValueError).
IntTokens == {"1", "2", "3"}

CanInt(f) == Len(strip(f)) = 1 /\ strip(f)[1] \in IntTokens

IntOf(f) ==
    CASE strip(f)[1] = "1" -> 1
      [] strip(f)[1] = "2" -> 2
      [] strip(f)[1] = "3" -> 3

\* float(x): accepts integer and decimal literals and "nan".  A float is
\* represented by its repr(), which is what an f-string prints for it.
FloatTokens == {"1", "2", "3", "0.5", "1.25", "nan"}

CanFloat(f) == Len(strip(f)) = 1 /\ strip(f)[1] \in FloatTokens

FloatOf(f) ==
    CASE strip(f)[1] = "1"    -> "1.0"
      [] strip(f)[1] = "2"    -> "2.0"
      [] strip(f)[1] = "3"    -> "3.0"
      [] strip(f)[1] = "0.5"  -> "0.5"
      [] strip(f)[1] = "1.25" -> "1.25"
      [] strip(f)[1] = "nan"  -> "nan"

\* ------------------------------------------------------------------- state
VARIABLES
    missing,        \* the files that cannot be opened
    mtx_file,       \* the lines of <prefix>_matrix.mtx
    batch_size,     \* StreamMatrixData's batch_size
    gen_pc,         \* the generator: "new", "loop" (in the for loop), "yield"
                    \* (suspended at line 79), "final" (suspended at line 87),
                    \* "done" (returned or raised), "closed" (dropped by its caller)
    ndx,            \* enumerate(file_handle): index of the line being read
    batch_stopndx,
    row_batch,      \* the one list object the generator yields every time
    emitted,        \* history: copy of row_batch at every yield
    open_handles,   \* the files currently open
    error,          \* the exception that ended the call, or "none"
    col_file, row_file,     \* the lines of .mtx_cols and .mtx_rows
    col_meta, row_meta,     \* the dicts built by ParseIDs
    load_pc,        \* LoadMTX: "cols", "rows", "next", "batch", "done", "failed", "off"
    expr_prior,     \* the rows of table expr before the call
    expr_table,     \* the rows of table expr
    inserted,       \* history: the tuple_list of every InsertData call made by
                    \* LoadMTX or LoadClusters
    cluster_file,   \* the lines of the cluster file
    dataset_name,   \* dir_path.name
    cluster_pc,     \* LoadClusters: "open", "read", "insert", "done", "failed", "off"
    cluster_ndx,    \* lines of the cluster file consumed
    cluster_tuples,
    clusters_prior, \* the rows of table clusters before the call
    clusters_table  \* the rows of table clusters

gen_vars     == <<gen_pc, ndx, batch_stopndx, row_batch, emitted>>
load_vars    == <<col_meta, row_meta, load_pc, expr_table, inserted>>
cluster_vars == <<cluster_pc, cluster_ndx, cluster_tuples, clusters_table>>
input_vars   == <<missing, mtx_file, batch_size, col_file, row_file, expr_prior,
                  cluster_file, dataset_name, clusters_prior>>
vars == <<gen_vars, load_vars, cluster_vars, input_vars, open_handles, error>>

\* All sequences over S of length at most n.
SeqUpTo(S, n) == UNION {[1..k -> S] : k \in 0..n}

\* ------------------------------------------------------- StreamMatrixData
\* normalize(matrix_row): int(row[0]), int(row[1]), float(row[2]), evaluated
\* left to right; fields beyond the third are never looked at.
NormalizeError(matrix_row) ==
    IF ~CanInt(matrix_row[1]) THEN "ValueError"
    ELSE IF Len(matrix_row) < 2 THEN "IndexError"
    ELSE IF ~CanInt(matrix_row[2]) THEN "ValueError"
    ELSE IF Len(matrix_row) < 3 THEN "IndexError"
    ELSE IF ~CanFloat(matrix_row[3]) THEN "ValueError"
    ELSE "none"

normalize(matrix_row) ==
    <<IntOf(matrix_row[1]), IntOf(matrix_row[2]), FloatOf(matrix_row[3])>>

\* line 71: a comment line
IsComment(line) == startswith(strip(line), "%")

\* line 75: the index marked as the last row of the batch
MarkStop(n, size) == n + (size - 1)

\* line 78: the batch is complete
BatchComplete(n, stop) == n >= stop

\* line 81: row_batch.clear()
ClearedNot(batch) == batch

Cleared(batch) == <<>>

\* line 84: parse the line and append it, or raise out of the generator; the
\* exception leaves the with block, which closes the file.
AppendRow(line) ==
    LET matrix_row == split(strip(line), " ") IN
    IF NormalizeError(matrix_row) = "none"
    THEN /\ row_batch' = Append(row_batch, normalize(matrix_row))
         /\ gen_pc' = "loop"
         /\ ndx' = ndx + 1
         /\ UNCHANGED <<error, open_handles>>
    ELSE /\ error' = NormalizeError(matrix_row)
         /\ gen_pc' = "done"
         /\ open_handles' = open_handles \ {"mtx"}
         /\ UNCHANGED <<row_batch, ndx>>

\* first next(): lines 66-67; open() raises when the file cannot be opened
GenStart ==
    /\ gen_pc = "new"
    /\ ndx' = 0
    /\ batch_stopndx' = 0
    /\ row_batch' = <<>>
    /\ IF "mtx" \in missing
       THEN /\ gen_pc' = "done"
            /\ error' = "IOError"
            /\ UNCHANGED open_handles
       ELSE /\ gen_pc' = "loop"
            /\ open_handles' = open_handles \cup {"mtx"}
            /\ UNCHANGED error
    /\ UNCHANGED emitted

\* one iteration of the for loop, lines 68-84, up to the yield if it is reached
GenLine ==
    /\ gen_pc = "loop"
    /\ ndx < Len(mtx_file)
    /\ LET line == mtx_file[ndx + 1]
           stop == IF batch_stopndx = 0 THEN MarkStop(ndx, batch_size)
                   ELSE batch_stopndx
       IN  IF IsComment(line)
           THEN /\ ndx' = ndx + 1
                /\ UNCHANGED <<gen_pc, batch_stopndx, row_batch, emitted,
                               error, open_handles>>
           ELSE /\ batch_stopndx' = stop
                /\ IF BatchComplete(ndx, stop)
                   THEN /\ gen_pc' = "yield"
                        /\ emitted' = Append(emitted, row_batch)
                        /\ UNCHANGED <<ndx, row_batch, error, open_handles>>
                   ELSE /\ AppendRow(line)
                        /\ UNCHANGED emitted

\* next() after a yield at line 79: lines 80-84
GenResume ==
    /\ gen_pc = "yield"
    /\ batch_stopndx' = 0
    /\ LET line == mtx_file[ndx + 1]
           matrix_row == split(strip(line), " ")
       IN  IF NormalizeError(matrix_row) = "none"
           THEN /\ row_batch' = Append(Cleared(row_batch), normalize(matrix_row))
                /\ gen_pc' = "loop"
                /\ ndx' = ndx + 1
                /\ UNCHANGED <<error, open_handles>>
           ELSE /\ row_batch' = Cleared(row_batch)
                /\ error' = NormalizeError(matrix_row)
                /\ gen_pc' = "done"
                /\ open_handles' = open_handles \ {"mtx"}
                /\ UNCHANGED ndx
    /\ UNCHANGED emitted

\* the for loop is exhausted: the with block closes the file, line 87 yields
GenEOF ==
    /\ gen_pc = "loop"
    /\ ndx = Len(mtx_file)
    /\ gen_pc' = "final"
    /\ open_handles' = open_handles \ {"mtx"}
    /\ emitted' = Append(emitted, row_batch)
    /\ UNCHANGED <<ndx, batch_stopndx, row_batch, error>>

\* next() after the yield at line 87: StopIteration
GenFinish ==
    /\ gen_pc = "final"
    /\ gen_pc' = "done"
    /\ UNCHANGED <<ndx, batch_stopndx, row_batch, emitted, error, open_handles>>

\* ---------------------------------------------------------------- ParseIDs
\* lines 52-58: ordinal (1-based line number) -> first tab-separated field of
\* the stripped line.  The dict is a sequence: its keys are 1..Len.
ParseIDs(file) == [i \in 1..Len(file) |-> split(strip(file[i]), "\t")[1]]

\* ------------------------------------------------- the database statement
\* lines 163-165: execute(" INSERT INTO <table> VALUES " + ','.join(tuple_list)).
RECURSIVE join(_, _)
join(sep, list) ==
    IF list = <<>> THEN <<>>
    ELSE IF Len(list) = 1 THEN list[1]
    ELSE list[1] \o <<sep>> \o join(sep, Tail(list))

\* The numeric literals of the statement text.
NumAtoms == {"1", "2", "3", "0.5", "1.0", "1.25", "2.0", "3.0"}

\* The statement's lexer: whitespace separates; ( ) , are tokens; a quote opens
\* a string constant that runs to the next quote not followed by a quote, two
\* adjacent quotes inside it standing for one; anything else is a numeric
\* literal or an identifier.  The result is <<ok, tokens>>.
RECURSIVE LexSQL(_, _, _)
RECURSIVE LexString(_, _, _, _)
LexSQL(s, i, toks) ==
    IF i > Len(s) THEN <<TRUE, toks>>
    ELSE IF IsSpace(s[i]) THEN LexSQL(s, i + 1, toks)
    ELSE IF s[i] = "'" THEN LexString(s, i + 1, <<>>, toks)
    ELSE IF s[i] \in {"(", ")", ","}
    THEN LexSQL(s, i + 1, Append(toks, [t |-> s[i], v |-> <<>>]))
    ELSE IF s[i] \in NumAtoms
    THEN LexSQL(s, i + 1, Append(toks, [t |-> "num", v |-> <<s[i]>>]))
    ELSE LexSQL(s, i + 1, Append(toks, [t |-> "ident", v |-> <<s[i]>>]))

LexString(s, i, acc, toks) ==
    IF i > Len(s) THEN <<FALSE, toks>>
    ELSE IF s[i] # "'" THEN LexString(s, i + 1, Append(acc, s[i]), toks)
    ELSE IF i < Len(s) /\ s[i + 1] = "'"
    THEN LexString(s, i + 2, Append(acc, "'"), toks)
    ELSE LexSQL(s, i + 1, Append(toks, [t |-> "str", v |-> acc]))

\* The VALUES list: one or more rows ( item , ... ) separated by commas, an
\* item being a string constant or a numeric literal (a bare identifier names no
\* column here).  st is what is expected next.  The result is <<ok, rows>>.
RECURSIVE ParseValues(_, _, _, _, _)
ParseValues(toks, i, st, cur, rows) ==
    IF i > Len(toks) THEN <<st = "more" /\ rows # <<>>, rows>>
    ELSE LET k == toks[i] IN
         CASE st = "row" /\ k.t = "(" ->
                  ParseValues(toks, i + 1, "item", <<>>, rows)
           [] st = "item" /\ k.t \in {"str", "num"} ->
                  ParseValues(toks, i + 1, "sep", Append(cur, k), rows)
           [] st = "sep" /\ k.t = "," ->
                  ParseValues(toks, i + 1, "item", cur, rows)
           [] st = "sep" /\ k.t = ")" ->
                  ParseValues(toks, i + 1, "more", <<>>, Append(rows, cur))
           [] st = "more" /\ k.t = "," ->
                  ParseValues(toks, i + 1, "row", <<>>, rows)
           [] OTHER -> <<FALSE, rows>>

\* The tables' columns and keys (lines 139-145 and 150-158).
ExprColumns    == <<"VARCHAR", "VARCHAR", "DOUBLE">>
ExprKeys       == {{1, 2}}
ClusterColumns == <<"INT", "INT", "VARCHAR", "VARCHAR">>
ClusterKeys    == {{1, 2, 3}, {3, 4}}

\* An item converts to a column's type: any item to VARCHAR (its text); to
\* DOUBLE a text that is a numeric literal, stored as the double it denotes
\* (3 is 3.0); to INT a text that is a whole number, stored as that integer.
\* (No statement sent here puts a fractional literal into an INT column.)
WholeNumbers == {"1", "2", "3", "1.0", "2.0", "3.0"}

Castable(item, type) ==
    CASE type = "VARCHAR" -> TRUE
      [] type = "DOUBLE"  -> Len(item.v) = 1 /\ item.v[1] \in NumAtoms
      [] type = "INT"     -> Len(item.v) = 1 /\ item.v[1] \in WholeNumbers

\* A double is represented by its shortest decimal text with a fraction part.
DoubleOf(text) ==
    CASE text = "1" -> "1.0"
      [] text = "2" -> "2.0"
      [] text = "3" -> "3.0"
      [] OTHER -> text

IntegerOf(text) ==
    CASE text = "1.0" -> "1"
      [] text = "2.0" -> "2"
      [] text = "3.0" -> "3"
      [] OTHER -> text

CastTo(item, type) ==
    CASE type = "VARCHAR" -> item.v
      [] type = "DOUBLE"  -> DoubleOf(item.v[1])
      [] type = "INT"     -> IntegerOf(item.v[1])

RowFits(row, columns) ==
    /\ Len(row) = Len(columns)
    /\ \A c \in 1..Len(columns) : Castable(row[c], columns[c])

CastRow(row, columns) == [c \in 1..Len(columns) |-> CastTo(row[c], columns[c])]

KeysUnique(rows, keys) ==
    \A key \in keys : \A i, j \in 1..Len(rows) :
        (i # j) => \E c \in key : rows[i][c] # rows[j][c]

\* The rows a VALUES text denotes for a table: <<ok, rows>>.
ValuesRows(text, columns) ==
    LET lexed  == LexSQL(text, 1, <<>>)
        parsed == IF lexed[1] THEN ParseValues(lexed[2], 1, "row", <<>>, <<>>)
                  ELSE <<FALSE, <<>>>>
    IN  IF parsed[1] /\ \A r \in 1..Len(parsed[2]) : RowFits(parsed[2][r], columns)
        THEN <<TRUE, [r \in 1..Len(parsed[2]) |-> CastRow(parsed[2][r], columns)]>>
        ELSE <<FALSE, <<>>>>

\* InsertData: the statement either appends all its rows or fails and leaves
\* the table as it was.  <<ok, table>>.
InsertData(tuple_list, table, columns, keys) ==
    LET vr == ValuesRows(join(",", tuple_list), columns) IN
    IF vr[1] /\ KeysUnique(table \o vr[2], keys)
    THEN <<TRUE, table \o vr[2]>>
    ELSE <<FALSE, table>>

InsertExprData(expr_tuples, table) == InsertData(expr_tuples, table, ExprColumns, ExprKeys)

InsertClusterData(cluster_rows, table) ==
    InsertData(cluster_rows, table, ClusterColumns, ClusterKeys)

\* ------------------------------------------------ the stream read directly
\* for batch in StreamMatrixData(path, batch_size): a caller that takes every
\* batch and resumes the generator at once.
CommentLine  == <<" ", "%", "x">>
StreamLines ==
    { CommentLine,
      <<"1", " ", "1", " ", "0.5">>,
      <<"2", " ", "1", " ", "1">>,
      <<"1", " ", "2">>,
      <<"1", " ", "2", " ", "0.5", " ", "x">>,
      <<"1", " ", "x", " ", "0.5">>,
      <<"1", " ", " ", "2", " ", "0.5">> }

NoLoad ==
    /\ col_file = <<>> /\ row_file = <<>>
    /\ col_meta = <<>> /\ row_meta = <<>>
    /\ load_pc = "off"
    /\ expr_prior = <<>> /\ expr_table = <<>>
    /\ inserted = <<>>

NoClusters ==
    /\ cluster_file = <<>> /\ dataset_name = <<>>
    /\ cluster_pc = "off" /\ cluster_ndx = 0 /\ cluster_tuples = <<>>
    /\ clusters_prior = <<>> /\ clusters_table = <<>>

GenNew ==
    /\ gen_pc = "new" /\ ndx = 0 /\ batch_stopndx = 0
    /\ row_batch = <<>> /\ emitted = <<>>
    /\ open_handles = {} /\ error = "none"

InitStream ==
    /\ missing = {}
    /\ mtx_file \in SeqUpTo(StreamLines, MaxLines)
    /\ batch_size \in 1..MaxBatchSize
    /\ GenNew
    /\ NoLoad
    /\ NoClusters

NextStream ==
    \/ GenStart /\ UNCHANGED <<load_vars, cluster_vars, input_vars>>
    \/ GenLine /\ UNCHANGED <<load_vars, cluster_vars, input_vars>>
    \/ GenResume /\ UNCHANGED <<load_vars, cluster_vars, input_vars>>
    \/ GenEOF /\ UNCHANGED <<load_vars, cluster_vars, input_vars>>
    \/ GenFinish /\ UNCHANGED <<load_vars, cluster_vars, input_vars>>

SpecStream == InitStream /\ [][NextStream]_vars

\* ------------------------------------------------------------ ExprDB.LoadMTX
\* line 255: f"('{row_id}', '{col_id}', {matrix_row[2]})"
FormatExpr(row_id, col_id, value) ==
    <<"(", "'">> \o row_id \o <<"'", ",", " ", "'">> \o col_id
                 \o <<"'", ",", " ", value, ")">>

Resolvable(matrix_row, rows, cols) ==
    matrix_row[1] \in DOMAIN rows /\ matrix_row[2] \in DOMAIN cols

\* lines 245-255: the tuple_list of a batch, <<ok, tuple_list>>; a lookup of an
\* ordinal that is not a key raises KeyError out of the loop, tuple_list then
\* holding the tuples of the rows before it.
ResolveBatch(matrix_batch, rows, cols) ==
    LET bad  == {i \in 1..Len(matrix_batch) : ~Resolvable(matrix_batch[i], rows, cols)}
        upto == IF bad = {} THEN Len(matrix_batch)
                ELSE (CHOOSE i \in bad : \A j \in bad : i <= j) - 1
    IN  <<bad = {}, [i \in 1..upto |->
                       FormatExpr(rows[matrix_batch[i][1]], cols[matrix_batch[i][2]],
                                  matrix_batch[i][3])]>>

\* line 244: the for statement asks the generator for the next batch only when
\* the body has finished with the previous one.
ConsumerWaitingEager(pc) == pc \in {"next", "batch"}

ConsumerWaiting(pc) == pc = "next"

\* What the generator holds open while suspended inside its with block; an
\* exception leaving LoadMTX drops the generator, whose finalizer closes it.
HeldByGeneratorLeaked == {}

HeldByGenerator == {"mtx"}

\* ParseIDs called at lines 240 and 241: open() ...
LoadOpenMeta ==
    /\ load_pc \in {"cols", "rows"}
    /\ load_pc \notin open_handles
    /\ IF load_pc \in missing
       THEN /\ error' = "IOError"
            /\ load_pc' = "failed"
            /\ UNCHANGED open_handles
       ELSE /\ open_handles' = open_handles \cup {load_pc}
            /\ UNCHANGED <<error, load_pc>>
    /\ UNCHANGED <<col_meta, row_meta, expr_table, inserted, gen_vars>>

\* ... read every line, leave the with block
LoadReadMeta ==
    /\ load_pc \in {"cols", "rows"}
    /\ load_pc \in open_handles
    /\ open_handles' = open_handles \ {load_pc}
    /\ IF load_pc = "cols"
       THEN /\ col_meta' = ParseIDs(col_file)
            /\ load_pc' = "rows"
            /\ UNCHANGED row_meta
       ELSE /\ row_meta' = ParseIDs(row_file)
            /\ load_pc' = "next"
            /\ UNCHANGED col_meta
    /\ UNCHANGED <<error, expr_table, inserted, gen_vars>>

\* LoadMTX after a step of the generator it is iterating: a yield hands it a
\* batch, StopIteration ends the loop, an exception of the generator ends the call.
AfterGen ==
    /\ load_pc' = CASE gen_pc' \in {"yield", "final"} -> "batch"
                    [] gen_pc' = "done" -> IF error' = "none" THEN "done" ELSE "failed"
                    [] OTHER -> "next"
    /\ UNCHANGED <<col_meta, row_meta, expr_table, inserted>>

LoadGenStart  == ConsumerWaiting(load_pc) /\ GenStart /\ AfterGen
LoadGenLine   == ConsumerWaiting(load_pc) /\ GenLine /\ AfterGen
LoadGenResume == ConsumerWaiting(load_pc) /\ GenResume /\ AfterGen
LoadGenEOF    == ConsumerWaiting(load_pc) /\ GenEOF /\ AfterGen
LoadGenFinish == ConsumerWaiting(load_pc) /\ GenFinish /\ AfterGen

\* lines 248-258: the insert follows the loop over the batch, so a KeyError
\* inside the loop leaves the table alone; tuple_list goes with the frame.
TableAfterAbortFlushed(table, tuple_list) == InsertExprData(tuple_list, table)[2]

TableAfterAbort(table, tuple_list) == table

\* LoadMTX raises while the generator is suspended at a yield.
LoadRaises(exception) ==
    /\ error' = exception
    /\ load_pc' = "failed"
    /\ gen_pc' = "closed"
    /\ open_handles' = open_handles \ HeldByGenerator

\* the body of the for loop, lines 245-258; matrix_batch is the generator's own
\* list row_batch.  (The message printed for an empty gene id, lines 252-253,
\* changes nothing: the record is formatted and inserted like any other.)
LoadBatch ==
    /\ load_pc = "batch"
    /\ LET matrix_batch == row_batch
           resolved == ResolveBatch(matrix_batch, row_meta, col_meta)
           result   == InsertExprData(resolved[2], expr_table)
       IN  IF ~resolved[1]
           THEN /\ LoadRaises("KeyError")
                /\ expr_table' = TableAfterAbort(expr_table, resolved[2])
                /\ UNCHANGED inserted
           ELSE /\ inserted' = Append(inserted, resolved[2])
                /\ expr_table' = result[2]
                /\ IF result[1]
                   THEN /\ load_pc' = "next"
                        /\ UNCHANGED <<error, gen_pc, open_handles>>
                   ELSE LoadRaises("DBError")
    /\ UNCHANGED <<col_meta, row_meta, ndx, batch_stopndx, row_batch, emitted>>

LoadLines ==
    { CommentLine,
      <<"1", " ", "1", " ", "0.5">>,
      <<"2", " ", "1", " ", "1">>,
      <<"1", " ", "2", " ", "1.25">>,
      <<"2", " ", "2", " ", "nan">>,
      <<"1", " ", "2">> }

RowFiles ==
    { << <<"g">>, <<"h", "\t", "x">> >>,
      << <<"g">> >>,
      << <<"g", "'", "'">>, <<" ", "h", " ">> >> }

ColFiles ==
    { << <<"c">>, <<"d", "\t", "c">> >>,
      << <<"c", "'">> >> }

PriorExpr == { <<>>, << <<<<"g">>, <<"c">>, "2.0">> >> }

LoadOf(max_lines) ==
    /\ mtx_file \in SeqUpTo(LoadLines, max_lines)
    \* LoadMTX runs the stream with its default batch size, which no file of
    \* MaxLoadLines lines fills; the smaller sizes (above 1) stand for it on
    \* files that are longer than a batch.
    /\ batch_size \in (2..MaxBatchSize) \cup {DefaultBatchSize}
    /\ row_file \in RowFiles
    /\ col_file \in ColFiles
    /\ expr_prior \in PriorExpr
    /\ missing \in {{}, {"cols"}, {"rows"}, {"mtx"}}
    /\ missing # {} => /\ Len(mtx_file) <= 1
                       /\ batch_size = DefaultBatchSize
                       /\ expr_prior = <<>>
    /\ expr_table = expr_prior
    /\ col_meta = <<>> /\ row_meta = <<>>
    /\ load_pc = "cols"
    /\ inserted = <<>>
    /\ GenNew
    /\ NoClusters

InitLoad == LoadOf(MaxLoadLines)

NextLoad ==
    \/ LoadOpenMeta /\ UNCHANGED <<cluster_vars, input_vars>>
    \/ LoadReadMeta /\ UNCHANGED <<cluster_vars, input_vars>>
    \/ LoadGenStart /\ UNCHANGED <<cluster_vars, input_vars>>
    \/ LoadGenLine /\ UNCHANGED <<cluster_vars, input_vars>>
    \/ LoadGenResume /\ UNCHANGED <<cluster_vars, input_vars>>
    \/ LoadGenEOF /\ UNCHANGED <<cluster_vars, input_vars>>
    \/ LoadGenFinish /\ UNCHANGED <<cluster_vars, input_vars>>
    \/ LoadBatch /\ UNCHANGED <<cluster_vars, input_vars>>

SpecLoad == InitLoad /\ [][NextLoad]_vars

\* ------------------------------------------------------ ExprDB.LoadClusters
\* line 277: the stripped line split at tabs must unpack into exactly three
\* names; lines 280-281: both ids must be integers.
ClusterParseErrorLenient(fields) ==
    IF Len(fields) < 3 THEN "ValueError"
    ELSE IF ~CanInt(strip(fields[1])) \/ ~CanInt(strip(fields[2])) THEN "ValueError"
    ELSE "none"

ClusterParseError(fields) ==
    IF Len(fields) # 3 THEN "ValueError"
    ELSE IF ~CanInt(strip(fields[1])) \/ ~CanInt(strip(fields[2])) THEN "ValueError"
    ELSE "none"

\* an int printed by an f-string
IntRepr(n) == CASE n = 1 -> "1" [] n = 2 -> "2" [] n = 3 -> "3"

\* lines 279-285
FormatCluster(fields, name) ==
    <<"(", " ", " ", IntRepr(IntOf(strip(fields[1]))),
      " ", ",", IntRepr(IntOf(strip(fields[2]))),
      " ", ",", "'">> \o strip(fields[3]) \o <<"'", " ", ",", "'">> \o name \o <<"'", ")">>

\* line 274
ClusterOpen ==
    /\ cluster_pc = "open"
    /\ IF "clusters" \in missing
       THEN /\ error' = "IOError"
            /\ cluster_pc' = "failed"
            /\ UNCHANGED open_handles
       ELSE /\ open_handles' = open_handles \cup {"clusters"}
            /\ cluster_pc' = "read"
            /\ UNCHANGED error
    /\ UNCHANGED <<cluster_ndx, cluster_tuples, clusters_table, inserted>>

\* one iteration of the loop, lines 275-285
ClusterLine ==
    /\ cluster_pc = "read"
    /\ cluster_ndx < Len(cluster_file)
    /\ LET fields == split(strip(cluster_file[cluster_ndx + 1]), "\t") IN
       IF ClusterParseError(fields) = "none"
       THEN /\ cluster_tuples' = Append(cluster_tuples, FormatCluster(fields, dataset_name))
            /\ cluster_ndx' = cluster_ndx + 1
            /\ UNCHANGED <<cluster_pc, error, open_handles>>
       ELSE /\ error' = ClusterParseError(fields)
            /\ cluster_pc' = "failed"
            /\ open_handles' = open_handles \ {"clusters"}
            /\ UNCHANGED <<cluster_tuples, cluster_ndx>>
    /\ UNCHANGED <<clusters_table, inserted>>

\* the loop is exhausted: the with block closes the file, line 288 inserts
ClusterInsert ==
    /\ cluster_pc = "read"
    /\ cluster_ndx = Len(cluster_file)
    /\ open_handles' = open_handles \ {"clusters"}
    /\ inserted' = Append(inserted, cluster_tuples)
    /\ LET result == InsertClusterData(cluster_tuples, clusters_table) IN
       /\ clusters_table' = result[2]
       /\ cluster_pc' = IF result[1] THEN "done" ELSE "failed"
       /\ error' = IF result[1] THEN error ELSE "DBError"
    /\ UNCHANGED <<cluster_ndx, cluster_tuples>>

ClusterLines ==
    { <<"1", "\t", "1", "\t", "a">>,
      <<" ", "1", "\t", "2", " ", "\t", "b">>,
      <<"2", "\t", "1", "\t", "a", "'", "'">>,
      <<"1", "\t", "1">>,
      <<"x", "\t", "1", "\t", "a">>,
      <<"1", "\t", "2", "\t", "a", "\t", "b">> }

DatasetNames == { <<"d">> }

PriorClusters == { <<>>, << <<"1", "1", <<"a">>, <<"d">>>> >> }

InitClusters ==
    /\ cluster_file \in SeqUpTo(ClusterLines, MaxClusterLines)
    /\ dataset_name \in DatasetNames
    /\ clusters_prior \in PriorClusters
    /\ clusters_table = clusters_prior
    /\ missing \in {{}, {"clusters"}}
    /\ cluster_pc = "open" /\ cluster_ndx = 0 /\ cluster_tuples = <<>>
    /\ mtx_file = <<>> /\ batch_size = DefaultBatchSize
    /\ GenNew
    /\ NoLoad

gen_and_load == <<gen_vars, col_meta, row_meta, load_pc, expr_table>>

NextClusters ==
    \/ ClusterOpen /\ UNCHANGED <<gen_and_load, input_vars>>
    \/ ClusterLine /\ UNCHANGED <<gen_and_load, input_vars>>
    \/ ClusterInsert /\ UNCHANGED <<gen_and_load, input_vars>>

SpecClusters == InitClusters /\ [][NextClusters]_vars

\* ------------------------------------- the other methods of the connection
\* The loaders take no lock and open no transaction, and the class leaves the
\* order of calls to its caller, which is single-threaded: another method runs
\* before LoadMTX or LoadClusters has begun, or after it has returned or raised.
NoCallRunning ==
    /\ \/ load_pc \in {"off", "done", "failed"}
       \/ load_pc = "cols" /\ "cols" \notin open_handles /\ error = "none"
    /\ cluster_pc \in {"off", "open", "done", "failed"}

\* The rows a loader that has not begun yet will find in its table.
ExprBefore(table)    == IF load_pc = "cols" THEN table ELSE expr_prior
ClusterBefore(table) == IF cluster_pc = "open" THEN table ELSE clusters_prior

session_fixed ==
    <<gen_vars, col_meta, row_meta, load_pc, inserted, cluster_pc, cluster_ndx,
      cluster_tuples, missing, mtx_file, batch_size, col_file, row_file,
      cluster_file, dataset_name, open_handles, error>>

SetExpr(table) ==
    /\ expr_table' = table
    /\ expr_prior' = ExprBefore(table)
    /\ UNCHANGED <<clusters_table, clusters_prior, session_fixed>>

SetClusters(table) ==
    /\ clusters_table' = table
    /\ clusters_prior' = ClusterBefore(table)
    /\ UNCHANGED <<expr_table, expr_prior, session_fixed>>

\* lines 137-145: CREATE OR REPLACE TABLE expr
CreateExprData == NoCallRunning /\ SetExpr(<<>>)

\* lines 147-158: CREATE OR REPLACE TABLE clusters
CreateClusterData == NoCallRunning /\ SetClusters(<<>>)

\* The tuple lists and statements the caller passes in.
CallerExprTuples == { << <<"(", "'", "g", "'", ",", " ", "'", "c", "'", ",", " ", "2.0", ")">> >> }

CallerClusterTuples == { << <<"(", "1", ",", "1", ",", "'", "a", "'", ",", "'", "d", "'", ")">> >> }

\* lines 167-170, called by the caller; a statement that fails raises to the
\* caller and leaves the table as it was
CallInsertExprData ==
    /\ NoCallRunning
    /\ \E expr_tuples \in CallerExprTuples :
          SetExpr(InsertExprData(expr_tuples, expr_table)[2])

\* lines 172-175, called by the caller
CallInsertClusterData ==
    /\ NoCallRunning
    /\ \E cluster_rows \in CallerClusterTuples :
          SetClusters(InsertClusterData(cluster_rows, clusters_table)[2])

\* lines 225-227: QueryData executes the statement it is given (lines 207-223:
\* ScanExpr and ScanClusters are SELECTs, which change no table).
CallerQueries ==
    { [verb |-> "SELECT", values |-> <<>>],
      [verb |-> "DELETE", values |-> <<>>],
      [verb |-> "INSERT",
       values |-> <<"(", "'", "g", "'", ",", "'", "c", "'", ",", "2", ")">>] }

QueryData ==
    /\ NoCallRunning
    /\ \E query_str \in CallerQueries :
          CASE query_str.verb = "SELECT" -> UNCHANGED vars
            [] query_str.verb = "DELETE" -> SetExpr(<<>>)
            [] query_str.verb = "INSERT" ->
                  SetExpr(InsertExprData(<<query_str.values>>, expr_table)[2])

\* Either loader, and the other methods, on the connection of one ExprDB.
InitCalls == LoadOf(MaxCallLines) \/ InitClusters

NextCalls ==
    \/ NextLoad
    \/ NextClusters
    \/ CreateExprData
    \/ CreateClusterData
    \/ CallInsertExprData
    \/ CallInsertClusterData
    \/ QueryData

SpecCalls == InitCalls /\ [][NextCalls]_vars

\* ------------------------------------------------------ stream properties
RECURSIVE Flat(_)
Flat(batches) == IF batches = <<>> THEN <<>> ELSE Head(batches) \o Flat(Tail(batches))

RECURSIVE SelectLines(_, _)
SelectLines(file, keep) ==
    IF file = <<>> THEN <<>>
    ELSE IF Head(file) \in keep THEN <<Head(file)>> \o SelectLines(Tail(file), keep)
    ELSE SelectLines(Tail(file), keep)

\* The data format of the matrix file: a line whose first non-whitespace
\* character is "%" is a comment; a data line is exactly three fields
\* separated by single spaces, integer, integer, floating point.
MtxLines == StreamLines \cup LoadLines

CommentLines == {l \in MtxLines : strip(l) # <<>> /\ strip(l)[1] = "%"}

DataFormat(l) ==
    LET f == split(strip(l), " ") IN
    /\ Len(f) = 3
    /\ CanInt(f[1]) /\ CanInt(f[2]) /\ CanFloat(f[3])

WellFormedLines == {l \in MtxLines \ CommentLines : DataFormat(l)}

TripleOf(l) ==
    LET f == split(strip(l), " ") IN <<IntOf(f[1]), IntOf(f[2]), FloatOf(f[3])>>

NonComment(file) == SelectLines(file, MtxLines \ CommentLines)

ExpectedTriples(file) == [i \in 1..Len(NonComment(file)) |-> TripleOf(NonComment(file)[i])]

WellFormed(file) == \A i \in 1..Len(file) : file[i] \in CommentLines \cup WellFormedLines

StreamEnded == gen_pc \in {"final", "done"} /\ error = "none"

IsPrefix(s, t) == Len(s) <= Len(t) /\ s = SubSeq(t, 1, Len(s))

\* C1: every emitted batch except the last holds exactly batch_size triples and
\* the last one at most batch_size.
C1_BatchSizes ==
    StreamEnded =>
        /\ \A i \in 1..(Len(emitted) - 1) : Len(emitted[i]) = batch_size
        /\ Len(emitted[Len(emitted)]) \in 0..batch_size

\* C2: for a well-formed file the batches, each as it is when emitted, add up to
\* the triples of the non-comment lines in file order: a prefix of them while the
\* stream runs, all of them once it has ended, and the stream does not fail.
C2_Covers ==
    WellFormed(mtx_file) =>
        /\ error = "none"
        /\ IsPrefix(Flat(emitted), ExpectedTriples(mtx_file))
        /\ gen_pc \in {"final", "done"} => Flat(emitted) = ExpectedTriples(mtx_file)

C2_Witness ==
    /\ gen_pc = "done"
    /\ WellFormed(mtx_file)
    /\ Len(emitted) >= 3
    /\ Len(NonComment(mtx_file)) < Len(mtx_file)
    /\ Flat(emitted) = ExpectedTriples(mtx_file)

\* The whole run of the generator as a function of the file: the batches it
\* yields, each as it is when yielded.
RECURSIVE RunGen(_, _, _, _, _, _)
RunGen(file, size, n, stop, batch, out) ==
    IF n = Len(file) THEN Append(out, batch)
    ELSE LET line == file[n + 1]
             matrix_row == split(strip(line), " ")
             stop1 == IF stop = 0 THEN MarkStop(n, size) ELSE stop
         IN  IF IsComment(line) THEN RunGen(file, size, n + 1, stop, batch, out)
             ELSE IF NormalizeError(matrix_row) # "none"
             THEN IF BatchComplete(n, stop1) THEN Append(out, batch) ELSE out
             ELSE IF BatchComplete(n, stop1)
             THEN RunGen(file, size, n + 1, 0,
                         Append(Cleared(batch), normalize(matrix_row)),
                         Append(out, batch))
             ELSE RunGen(file, size, n + 1, stop1,
                         Append(batch, normalize(matrix_row)), out)

StreamBatches(file, size) == RunGen(file, size, 0, 0, <<>>, <<>>)

\* The step-by-step generator and its run as a function agree.
RunGenAgrees == gen_pc = "done" => emitted = StreamBatches(mtx_file, batch_size)

\* C3: comment lines do not count toward the batch size: the batches of a file
\* are those of the same file with its comment lines removed.
C3_CommentsNotCounted ==
    (gen_pc = "done" /\ WellFormed(mtx_file)) => emitted = StreamBatches(NonComment(mtx_file), batch_size)

\* C6: a non-comment line that is not exactly three fields (integer, integer,
\* floating point) ends the stream with an error when it is reached: the stream
\* never reads past the first such line and does not end normally.
BadAt(file, i) == file[i] \notin CommentLines \cup WellFormedLines

C6_MalformedLineFails ==
    \A i \in 1..Len(mtx_file) :
        BadAt(mtx_file, i) => /\ ndx <= i - 1
                              /\ gen_pc \in {"final", "done"} => error # "none"

\* ------------------------------------------------------ loader properties
LoadEnded == load_pc \in {"done", "failed"}

\* C4: a matrix file without data lines gives one empty batch, and LoadMTX
\* completes on it without error and leaves table expr as it was.
C4_EmptyFileNoOp ==
    (LoadEnded /\ missing = {} /\ NonComment(mtx_file) = <<>>) =>
        /\ emitted = << <<>> >>
        /\ load_pc = "done" /\ error = "none"
        /\ expr_table = expr_prior

AllResolvable(batch) ==
    \A i \in 1..Len(batch) : batch[i][1] \in DOMAIN row_meta /\ batch[i][2] \in DOMAIN col_meta

\* The tuples LoadMTX writes for the triples of a batch.
TuplesOf(batch) ==
    [i \in 1..Len(batch) |->
        FormatExpr(row_meta[batch[i][1]], col_meta[batch[i][2]], batch[i][3])]

\* The rows the insert statements of the batches 1..n put into table expr.
RECURSIVE RowsOfStatements(_, _)
RowsOfStatements(statements, n) ==
    IF n = 0 THEN <<>>
    ELSE RowsOfStatements(statements, n - 1)
             \o ValuesRows(join(",", statements[n]), ExprColumns)[2]

\* C5: when the first triple with an ordinal missing from its index lies in
\* the k-th emitted batch, LoadMTX stops on that batch with the lookup failure
\* (and raises one only so), having issued the k-1 inserts of the batches before
\* it, once each, and none for batch k: table expr holds its prior rows followed
\* by the rows of the batches 1..k-1 and nothing of batch k.  (The rows of a
\* batch are those its insert statement denotes.)
C5_LookupFailure ==
    LET k == Len(emitted) IN
    /\ \A j \in 1..(k - 1) : AllResolvable(emitted[j])
    /\ error = "KeyError" => (k >= 1 /\ ~AllResolvable(emitted[k]))
    /\ (k >= 1 /\ load_pc # "batch" /\ ~AllResolvable(emitted[k])) =>
          /\ error = "KeyError"
          /\ load_pc = "failed"
          /\ Len(inserted) = k - 1
          /\ \A j \in 1..(k - 1) : inserted[j] = TuplesOf(emitted[j])
          /\ expr_table = expr_prior \o RowsOfStatements(inserted, k - 1)

C5_Witness ==
    /\ error = "KeyError"
    /\ Len(emitted) = 2
    /\ Len(emitted[2]) = 2
    /\ AllResolvable(<<emitted[2][1]>>)
    /\ expr_prior # <<>>
    /\ Len(expr_table) = Len(expr_prior) + Len(emitted[1])

\* The identifier index of a file: ordinal i is the first tab-delimited field
\* of line i.
IndexOf(file) == [i \in 1..Len(file) |-> split(strip(file[i]), "\t")[1]]

ExpectedRecords ==
    LET t == ExpectedTriples(mtx_file) IN
    [i \in 1..Len(t) |-> <<IndexOf(row_file)[t[i][1]], IndexOf(col_file)[t[i][2]], t[i][3]>>]

DatasetResolves ==
    /\ WellFormed(mtx_file)
    /\ LET t == ExpectedTriples(mtx_file) IN
       /\ \A i \in 1..Len(t) : t[i][1] \in 1..Len(row_file) /\ t[i][2] \in 1..Len(col_file)
       /\ \A i, j \in 1..Len(t) :
            (i # j) => <<IndexOf(row_file)[t[i][1]], IndexOf(col_file)[t[i][2]]>>
                       # <<IndexOf(row_file)[t[j][1]], IndexOf(col_file)[t[j][2]]>>

\* C8: a successful LoadMTX of a dataset whose ordinals are all indexed and
\* whose resolved pairs are distinct inserts, in file order, exactly the records
\* (rowIndex[r], colIndex[c], v) of its data lines.
C8_RecordsInserted ==
    (load_pc = "done" /\ DatasetResolves) => expr_table = expr_prior \o ExpectedRecords

\* C9: once LoadMTX or LoadClusters has returned or raised, no file opened
\* during the call is still open.
C9_HandlesReleased ==
    (LoadEnded \/ cluster_pc \in {"done", "failed"}) => open_handles = {}

C9_Witness ==
    /\ load_pc = "failed"
    /\ error \in {"KeyError", "DBError"}
    /\ gen_pc = "closed"
    /\ ndx < Len(mtx_file)
    /\ Len(emitted) = 1
    /\ open_handles = {}

\* C10: LoadMTX issues one insert per emitted batch, in emission order and before
\* it asks for the next batch, and the tuples of the k-th insert are those of
\* the triples the buffer held when batch k was emitted.
C10_InsertPerBatch ==
    /\ Len(inserted) <= Len(emitted)
    /\ Len(emitted) <= Len(inserted) + 1
    /\ load_pc \in {"next", "done"} => Len(inserted) = Len(emitted)
    /\ \A k \in 1..Len(inserted) : inserted[k] = TuplesOf(emitted[k])

C10_Witness ==
    /\ load_pc = "done"
    /\ Len(inserted) = 2
    /\ Len(emitted[1]) >= 1
    /\ row_batch # emitted[1]
    /\ inserted[1] = TuplesOf(emitted[1])
    /\ Len(expr_table) = Len(expr_prior) + Len(emitted[1]) + Len(emitted[2])

\* ---------------------------------------------- cluster loader properties
\* The cluster file's format: three tab-separated fields, the first two integers.
ClusterFormat(l) ==
    LET f == split(strip(l), "\t") IN
    Len(f) = 3 /\ CanInt(strip(f[1])) /\ CanInt(strip(f[2]))

HasMalformedLine(file) == \E i \in 1..Len(file) : ~ClusterFormat(file[i])

\* C7: LoadClusters issues at most one insert, and only after every line is
\* parsed; a malformed line anywhere in the file makes the call fail with no
\* insert issued and table clusters unchanged.
C7_SingleInsert ==
    /\ Len(inserted) <= 1
    /\ inserted # <<>> => cluster_ndx = Len(cluster_file)
    /\ cluster_pc \in {"open", "read"} => clusters_table = clusters_prior
    /\ HasMalformedLine(cluster_file) =>
          /\ inserted = <<>>
          /\ clusters_table = clusters_prior
          /\ cluster_pc # "done"

C7_Witness ==
    /\ cluster_pc = "failed"
    /\ error = "ValueError"
    /\ cluster_ndx >= 1
    /\ cluster_tuples # <<>>
    /\ clusters_prior # <<>>
    /\ clusters_table = clusters_prior

====
